---- MODULE Spec2Model ----
(***************************************************************************)
(* A model of the NVML Prometheus exporter: construction of the Exporter   *)
(* (NewExporter / GetDevices), the poll cycle (GetTelemetryFromNVML), the  *)
(* Describe / Collect protocol run by concurrent scrapes, and the unit     *)
(* conversions of nvml.go.                                                 *)
(***************************************************************************)
EXTENDS Integers, Sequences, FiniteSets, TLC

\* ------------------------------------------------------------------ bounds

\* The largest device count nvmlDeviceGetCount reports in the model.
MaxDevices == 2
\* The number of scrape goroutines calling Collect concurrently.
NumScrapers == 2
\* The number of distinct hardware reading profiles the devices can show.
NumProfiles == 2
\* The largest Celsius reading fed to GetTemperature in SpecConv.
MaxCelsius == 120

Scrapers == 1..NumScrapers
Profiles == 0..(NumProfiles - 1)
\* The identities the driver reports: every device under the same name, and the
\* UUIDs either all different or (a cloned or misreported UUID) all the same.
UUIDList == <<"GPU-abc", "GPU-def", "GPU-ghi", "GPU-jkl">>
Layouts == {"distinct", "same"}
Ident(layout, i) ==
  [uuid |-> IF layout = "same" THEN UUIDList[1] ELSE UUIDList[i + 1], name |-> "Test-GPU"]

None == "none"
\* "No value yet" for the tuple-valued variables.
Nil == <<>>

\* ---------------------------------------------------------------- helpers

\* Go's integer division truncates toward zero.
GoDiv(a, b) ==
  IF (a >= 0) = (b > 0) THEN (IF a >= 0 THEN a ELSE -a) \div (IF b > 0 THEN b ELSE -b)
  ELSE -((IF a >= 0 THEN a ELSE -a) \div (IF b > 0 THEN b ELSE -b))

Digit(i) == <<"0", "1", "2", "3", "4", "5", "6", "7", "8", "9">>[i + 1]

\* strconv.Itoa for a non-negative int: its decimal digits, most significant first.
RECURSIVE Itoa(_)
Itoa(i) == IF i < 10 THEN <<Digit(i)>> ELSE Itoa(i \div 10) \o <<Digit(i % 10)>>

EmptyMap == [x \in {} |-> 0]

Put(f, k, v) == [x \in (DOMAIN f) \cup {k} |-> IF x = k THEN v ELSE f[x]]

\* The elements of a finite set in some order. T and x are bound variables, so that
\* the argument is evaluated once at every level.
RECURSIVE SetToSeq(_)
SetToSeq(S) ==
  CHOOSE q \in { IF T = {} THEN <<>>
                 ELSE CHOOSE r \in {<<x>> \o SetToSeq(T \ {x}) : x \in {CHOOSE y \in T : TRUE}} : TRUE
                 : T \in {S} } : TRUE

\* ---------------------------------------------------------------- catalog

DefaultNamespace == "nvml"

DeviceLabels == <<"device_id", "device_uuid", "device_name">>

gaugeMetrics ==
  [ power_watts            |-> [help |-> "Power Usage of an NVIDIA GPU in Watts", labels |-> DeviceLabels],
    fan_speed              |-> [help |-> "Device Fan Speed in Percent of Maximum", labels |-> DeviceLabels],
    gpu_percent            |-> [help |-> "Percent of GPU Utilized", labels |-> DeviceLabels],
    memory_free            |-> [help |-> "Number of bytes free in the GPU Memory", labels |-> DeviceLabels],
    memory_total           |-> [help |-> "Total bytes of the GPU's memory", labels |-> DeviceLabels],
    memory_used            |-> [help |-> "Total number of bytes used in the GPU Memory", labels |-> DeviceLabels],
    memory_percent         |-> [help |-> "Percent of GPU Memory Utilized", labels |-> DeviceLabels],
    temperature_fahrenheit |-> [help |-> "GPU Temperature in Fahrenheit", labels |-> DeviceLabels],
    temperature_celsius    |-> [help |-> "GPU Temperature in Celsius", labels |-> DeviceLabels] ]

\* The catalog of the second revision of the exporter (two labels, five metrics).
gaugeMetricsPart000 ==
  [ power_watts            |-> [help |-> "Power Usage of an NVIDIA GPU in Watts", labels |-> <<"device_uuid", "device_name">>],
    gpu_percent            |-> [help |-> "Percent of GPU Utilized", labels |-> <<"device_uuid", "device_name">>],
    memory_percent         |-> [help |-> "Percent of GPU Memory Utilized", labels |-> <<"device_uuid", "device_name">>],
    temperature_fahrenheit |-> [help |-> "GPU Temperature in Fahrenheit", labels |-> <<"device_uuid", "device_name">>],
    temperature_celsius    |-> [help |-> "GPU Temperature in Celsius", labels |-> <<"device_uuid", "device_name">>] ]

\* The descriptor prometheus builds from GaugeOpts{Namespace, Name, Help} and the labels.
Desc(name, help, labels) ==
  [fqName |-> <<DefaultNamespace, name>>, help |-> help, labels |-> labels]

\* prometheus.NewGauge for the "up" gauge: its descriptor (the value is the variable up).
UpDesc == Desc("up", "Were the NVML queries successful?", <<>>)

\* prometheus.NewGaugeVec: a descriptor and no children.
NewGaugeVec(name, info) ==
  [desc |-> Desc(name, info.help, info.labels), children |-> EmptyMap]

\* ------------------------------------------------------------------ state

VARIABLES
  unit,       \* which NewExporter built the exporter: None, "nvidia_exporter", "part_000"
  retExp,     \* NewExporter's first result: None (not called), "nil", "exporter"
  retErr,     \* NewExporter's second result: TRUE when err != nil
  devices,    \* Exporter.devices
  up,         \* the value of the Exporter.up gauge
  gauges,     \* Exporter.gauges: name -> [desc, children: label values -> value]
  mutex,      \* Exporter.mutex: Unlocked or the scraper holding the write lock
  hw,         \* the reading profile the hardware shows during the current poll cycle
  pc,         \* per scraper: its position in Collect
  idx,        \* per scraper: the loop index of GetTelemetryFromNVML
  failAt,     \* per scraper, while its Collect runs: Nil or <<device index, step>> of the failing query
  ch,         \* per scraper, while its Collect runs: what it has sent on the channel, in order
  pend,       \* per scraper: Nil or <<v>>, the gauge e.up is with the sink, unread; v is what it held when sent
  seen,       \* per scraper: Nil or <<[sent, read]>>, the value the sink read from e.up next to the one sent
  written,    \* the (metric, label values) pairs written since the last Reset pass
  described,  \* Nil or <<the descriptor set the last Describe call yielded>>
  convIn,     \* SpecConv: the raw reading given to a conversion
  convOut     \* SpecConv: Nil or the conversion's results

vars == <<unit, retExp, retErr, devices, up, gauges, mutex, hw, pc, idx, failAt,
          ch, pend, seen, written, described, convIn, convOut>>

expVars == <<unit, retExp, retErr, devices>>
convVars == <<convIn, convOut>>
scrapeVars == <<up, gauges, mutex, hw, pc, idx, failAt, ch, pend, seen, written, described>>

\* The zero value of sync.RWMutex: not locked.
Unlocked == 0

\* ----------------------------------------------------------- device source

ZeroDevice == [DeviceName |-> "", DeviceUUID |-> "", i |-> 0]

\* What the driver answers during enumeration: the device count, the identity of
\* each device, and the call that fails (fk) with the device index it fails on (fi).
FailKinds == {None, "count", "handle", "uuid", "name"}

\* newDevice: the index is set first, then UUID, then Name; the first failing read
\* returns the device as filled so far together with the error.
newDevice(id, i, fk) ==
  IF fk = "uuid" THEN <<[DeviceName |-> "", DeviceUUID |-> "", i |-> i], TRUE>>
  ELSE IF fk = "name" THEN <<[DeviceName |-> "", DeviceUUID |-> id.uuid, i |-> i], TRUE>>
  ELSE <<[DeviceName |-> id.name, DeviceUUID |-> id.uuid, i |-> i], FALSE>>

\* The loop of GetDevices from index i on, over the slice devs made with devCount
\* zero Devices: <<devices, err>>.
RECURSIVE GetDevicesFrom(_, _, _, _, _)
GetDevicesFrom(i, devs, ids, fk, fi) ==
  IF i > Len(devs) - 1 THEN <<devs, FALSE>>
  ELSE IF fk = "handle" /\ fi = i THEN <<devs, TRUE>>
  ELSE LET r == newDevice(ids[i + 1], i, IF fi = i THEN fk ELSE None)
           next == [devs EXCEPT ![i + 1] = r[1]]
       IN IF r[2] THEN <<next, TRUE>>
          ELSE GetDevicesFrom(i + 1, next, ids, fk, fi)

\* GetDevices: <<devices, err>>; a failing device count returns no slice at all.
GetDevices(ids, fk, fi) ==
  IF fk = "count" THEN <<Nil, TRUE>>
  ELSE GetDevicesFrom(0, [j \in 1..Len(ids) |-> ZeroDevice], ids, fk, fi)

\* The enumerations the driver can answer with.
Enumerations ==
  { e \in [ids : { [j \in 1..n |-> Ident(l, j - 1)] : n \in 0..MaxDevices, l \in Layouts },
            fk : FailKinds, fi : 0..MaxDevices] :
      /\ (e.fk \in {None, "count"}) => e.fi = 0
      /\ (e.fk \in {"handle", "uuid", "name"}) => e.fi < Len(e.ids) }

\* ------------------------------------------------------------ construction

Init ==
  /\ unit = None
  /\ retExp = None
  /\ retErr = FALSE
  /\ devices = Nil
  /\ up = 0
  /\ gauges = EmptyMap
  /\ mutex = Unlocked
  /\ hw = 0
  /\ pc = [s \in Scrapers |-> "idle"]
  /\ idx = [s \in Scrapers |-> 0]
  /\ failAt = [s \in Scrapers |-> Nil]
  /\ ch = [s \in Scrapers |-> Nil]
  /\ pend = [s \in Scrapers |-> Nil]
  /\ seen = [s \in Scrapers |-> Nil]
  /\ written = {}
  /\ described = Nil
  /\ convIn = 0
  /\ convOut = Nil

\* NewExporter of nvidia_exporter.go: GetDevices first; on its error nil and the
\* error are returned and nothing is built.
NewExporter ==
  /\ unit = None
  /\ \E e \in Enumerations :
       LET r == GetDevices(e.ids, e.fk, e.fi) IN
       IF r[2]
       THEN /\ retExp' = "nil"
            /\ retErr' = TRUE
            /\ UNCHANGED <<devices, gauges>>
       ELSE /\ retExp' = "exporter"
            /\ retErr' = FALSE
            /\ devices' = r[1]
            /\ gauges' = [name \in DOMAIN gaugeMetrics |-> NewGaugeVec(name, gaugeMetrics[name])]
  /\ unit' = "nvidia_exporter"
  /\ UNCHANGED <<up, mutex, hw, pc, idx, failAt, ch, pend, seen, written, described>>
  /\ UNCHANGED convVars

\* NewExporter of the second revision (named results): exp is allocated with an
\* empty gauges map before GetDevices runs, and the bare return on error hands back
\* that exp, holding whatever GetDevices returned as devices, next to the error.
NewExporterPart000 ==
  /\ unit = None
  /\ \E e \in Enumerations :
       LET r == GetDevices(e.ids, e.fk, e.fi) IN
       /\ retExp' = "exporter"
       /\ devices' = r[1]
       /\ retErr' = r[2]
       /\ gauges' = IF r[2] THEN EmptyMap
                    ELSE [name \in DOMAIN gaugeMetricsPart000 |->
                            NewGaugeVec(name, gaugeMetricsPart000[name])]
  /\ unit' = "part_000"
  /\ UNCHANGED <<up, mutex, hw, pc, idx, failAt, ch, pend, seen, written, described>>
  /\ UNCHANGED convVars

\* main registers the exporter only when NewExporter returned no error; the
\* scrape path modelled below is that of nvidia_exporter.go.
Serving == unit = "nvidia_exporter" /\ retExp = "exporter" /\ ~retErr

\* ----------------------------------------------------------- device queries

\* The raw readings device d shows under hardware profile p: every reading of every
\* device and profile is a different number, and the power reading is not a whole
\* number of watts.
Raw(p, d, k) == 40 * p + 10 * d + k

Reading(p, d) ==
  [ gpu        |-> Raw(p, d, 1),
    memory     |-> Raw(p, d, 2),
    celsius    |-> Raw(p, d, 3),
    milliwatts |-> 1000 * Raw(p, d, 4) + 500,
    fan        |-> Raw(p, d, 5),
    free       |-> Raw(p, d, 6),
    total      |-> Raw(p, d, 7),
    used       |-> Raw(p, d, 8) ]

\* Device.callGetIntFunc: <<rval, err>>; rval stays 0 when the driver call fails.
callGetIntFunc(ok, v) == IF ok THEN <<v, FALSE>> ELSE <<0, TRUE>>

\* Device.GetUtilization: <<gpu, memory, err>>.
GetUtilization(ok, g, m) == IF ok THEN <<g, m, FALSE>> ELSE <<0, 0, TRUE>>

\* GetPowerUsage rounding to the nearest watt.
GetPowerUsageRounded(ok, mw) ==
  LET r == callGetIntFunc(ok, mw) IN <<GoDiv(r[1] + 500, 1000), r[2]>>

\* Device.GetPowerUsage: <<usage, err>>, milliwatts divided by 1000.
GetPowerUsage(ok, mw) ==
  LET r == callGetIntFunc(ok, mw) IN <<GoDiv(r[1], 1000), r[2]>>

\* GetTemperature with the ratio folded first: 9/5 is 1 in integer arithmetic.
GetTemperatureConstFold(ok, c) ==
  IF ok THEN <<c * GoDiv(9, 5) + 32, c, FALSE>> ELSE <<0, 0, TRUE>>

\* Device.GetTemperature: <<tempF, tempC, err>>.
GetTemperature(ok, c) ==
  IF ok THEN <<GoDiv(c * 9, 5) + 32, c, FALSE>> ELSE <<0, 0, TRUE>>

\* Device.GetFanSpeed: <<percent, err>>.
GetFanSpeed(ok, v) == callGetIntFunc(ok, v)

\* Device.GetMemoryInfo: <<memInfo, err>>.
GetMemoryInfo(ok, f, t, u) ==
  IF ok THEN <<[Free |-> f, Total |-> t, Used |-> u], FALSE>>
  ELSE <<[Free |-> 0, Total |-> 0, Used |-> 0], TRUE>>

\* --------------------------------------------------------------- poll cycle

\* The device of the current loop iteration and the label values written for it.
CurDevice(s) == devices[idx[s] + 1]
\* The label values without the enumeration index: UUID and name only.
LabelValuesNoIndex(s) == <<CurDevice(s).DeviceUUID, CurDevice(s).DeviceName>>

LabelValues(s) == <<Itoa(idx[s]), CurDevice(s).DeviceUUID, CurDevice(s).DeviceName>>
CurReading(s) == Reading(hw, idx[s])

\* e.gauges[name].WithLabelValues(key...).Set(v) on the map g.
SetGauge(g, name, key, v) == [g EXCEPT ![name].children = Put(@, key, v)]

\* A Reset that drops nothing.
ResetKeep(vec) == vec

\* GaugeVec.Reset: every child is dropped, the descriptor stays.
Reset(vec) == [vec EXCEPT !.children = EmptyMap]

\* An ErrorFetching that gives up on the failing device only and goes on with the
\* next one.
ErrorFetchingSkipDevice(s, step) ==
  /\ up' = 0
  /\ failAt' = [failAt EXCEPT ![s] = IF failAt[s] = Nil THEN <<idx[s], step>> ELSE failAt[s]]
  /\ idx' = [idx EXCEPT ![s] = idx[s] + 1]
  /\ pc' = [pc EXCEPT ![s] = IF idx[s] + 1 < Len(devices) THEN "utilization" ELSE "collect"]
  /\ UNCHANGED <<gauges, written>>

\* An ErrorFetching that marks the cycle failed and goes on with the next query.
ErrorFetchingNextQuery(s, step) ==
  /\ up' = 0
  /\ failAt' = [failAt EXCEPT ![s] = IF failAt[s] = Nil THEN <<idx[s], step>> ELSE failAt[s]]
  /\ idx' = [idx EXCEPT ![s] = IF step = 5 THEN idx[s] + 1 ELSE idx[s]]
  /\ pc' = [pc EXCEPT ![s] =
              IF step < 5 THEN <<"temperature", "power", "fan", "memory">>[step]
              ELSE IF idx[s] + 1 < Len(devices) THEN "utilization" ELSE "collect"]
  /\ UNCHANGED <<gauges, written>>

\* An abort that leaves Collect at once, past an Unlock that is not deferred.
ErrorFetchingReturnLocked(s, step) ==
  /\ up' = 0
  /\ failAt' = [failAt EXCEPT ![s] = <<idx[s], step>>]
  /\ pc' = [pc EXCEPT ![s] = "returned"]
  /\ UNCHANGED <<gauges, written, idx>>

\* The ErrorFetching label: up is set to 0 and GetTelemetryFromNVML returns, so
\* Collect goes on to collect the vectors.
ErrorFetching(s, step) ==
  /\ up' = 0
  /\ failAt' = [failAt EXCEPT ![s] = <<idx[s], step>>]
  /\ pc' = [pc EXCEPT ![s] = "collect"]
  /\ UNCHANGED <<gauges, written, idx>>

\* Collect taking the read lock (RLock), which does not keep other readers out.
LockShared(s) ==
  /\ Serving
  /\ pc[s] = "idle" \/ (pc[s] = "returned" /\ seen[s] # Nil)
  /\ mutex' = s
  /\ \E p \in Profiles : hw' = p
  /\ pc' = [pc EXCEPT ![s] = "reset"]
  /\ seen' = [seen EXCEPT ![s] = Nil]
  /\ UNCHANGED <<up, gauges, idx, failAt, ch, pend, written, described>>
  /\ UNCHANGED expVars /\ UNCHANGED convVars

\* e.mutex.Lock() at the head of Collect. The hardware shows the readings of one
\* profile for the length of a poll cycle; which one is drawn here.
Lock(s) ==
  /\ Serving
  /\ pc[s] = "idle" \/ (pc[s] = "returned" /\ seen[s] # Nil)
  /\ mutex = Unlocked
  /\ mutex' = s
  /\ \E p \in Profiles : hw' = p
  /\ pc' = [pc EXCEPT ![s] = "reset"]
  /\ seen' = [seen EXCEPT ![s] = Nil]
  /\ UNCHANGED <<up, gauges, idx, failAt, ch, pend, written, described>>
  /\ UNCHANGED expVars /\ UNCHANGED convVars

\* The first loop of Collect: vec.Reset() for every vector.
ResetVecs(s) ==
  /\ pc[s] = "reset"
  /\ gauges' = [name \in DOMAIN gauges |-> Reset(gauges[name])]
  /\ written' = {}
  /\ pc' = [pc EXCEPT ![s] = "setUp"]
  /\ UNCHANGED <<up, mutex, hw, idx, failAt, ch, pend, seen, described>>
  /\ UNCHANGED expVars /\ UNCHANGED convVars

\* Collect without e.up.Set(1): up keeps what the last cycle left.
SetUpMissing(s) ==
  /\ pc[s] = "setUp"
  /\ idx' = [idx EXCEPT ![s] = 0]
  /\ pc' = [pc EXCEPT ![s] = IF Len(devices) = 0 THEN "collect" ELSE "utilization"]
  /\ UNCHANGED <<up, gauges, mutex, hw, failAt, ch, pend, seen, written, described>>
  /\ UNCHANGED expVars /\ UNCHANGED convVars

\* e.up.Set(1), then the entry of GetTelemetryFromNVML's loop.
SetUp(s) ==
  /\ pc[s] = "setUp"
  /\ up' = 1
  /\ idx' = [idx EXCEPT ![s] = 0]
  /\ pc' = [pc EXCEPT ![s] = IF Len(devices) = 0 THEN "collect" ELSE "utilization"]
  /\ UNCHANGED <<gauges, mutex, hw, failAt, ch, pend, seen, written, described>>
  /\ UNCHANGED expVars /\ UNCHANGED convVars

QueryUtilization(s) ==
  /\ pc[s] = "utilization"
  /\ \E ok \in BOOLEAN :
       LET r == GetUtilization(ok, CurReading(s).gpu, CurReading(s).memory)
           key == LabelValues(s)
       IN IF r[3] THEN ErrorFetching(s, 1)
          ELSE /\ gauges' = SetGauge(SetGauge(gauges, "gpu_percent", key, r[1]),
                                     "memory_percent", key, r[2])
               /\ written' = written \cup {<<"gpu_percent", key>>, <<"memory_percent", key>>}
               /\ pc' = [pc EXCEPT ![s] = "temperature"]
               /\ UNCHANGED <<up, failAt, idx>>
  /\ UNCHANGED <<mutex, hw, ch, pend, seen, described>>
  /\ UNCHANGED expVars /\ UNCHANGED convVars

\* The temperature step taking GetTemperature's results in the order Celsius,
\* Fahrenheit.
QueryTemperatureSwapped(s) ==
  /\ pc[s] = "temperature"
  /\ \E ok \in BOOLEAN :
       LET r == GetTemperature(ok, CurReading(s).celsius)
           tempC == r[1]
           tempF == r[2]
           key == LabelValues(s)
       IN IF r[3] THEN ErrorFetching(s, 2)
          ELSE /\ gauges' = SetGauge(SetGauge(gauges, "temperature_celsius", key, tempC),
                                     "temperature_fahrenheit", key, tempF)
               /\ written' = written \cup {<<"temperature_celsius", key>>,
                                           <<"temperature_fahrenheit", key>>}
               /\ pc' = [pc EXCEPT ![s] = "power"]
               /\ UNCHANGED <<up, failAt, idx>>
  /\ UNCHANGED <<mutex, hw, ch, pend, seen, described>>
  /\ UNCHANGED expVars /\ UNCHANGED convVars

QueryTemperature(s) ==
  /\ pc[s] = "temperature"
  /\ \E ok \in BOOLEAN :
       LET r == GetTemperature(ok, CurReading(s).celsius)
           tempF == r[1]
           tempC == r[2]
           key == LabelValues(s)
       IN IF r[3] THEN ErrorFetching(s, 2)
          ELSE /\ gauges' = SetGauge(SetGauge(gauges, "temperature_celsius", key, tempC),
                                     "temperature_fahrenheit", key, tempF)
               /\ written' = written \cup {<<"temperature_celsius", key>>,
                                           <<"temperature_fahrenheit", key>>}
               /\ pc' = [pc EXCEPT ![s] = "power"]
               /\ UNCHANGED <<up, failAt, idx>>
  /\ UNCHANGED <<mutex, hw, ch, pend, seen, described>>
  /\ UNCHANGED expVars /\ UNCHANGED convVars

QueryPowerUsage(s) ==
  /\ pc[s] = "power"
  /\ \E ok \in BOOLEAN :
       LET r == GetPowerUsage(ok, CurReading(s).milliwatts)
           key == LabelValues(s)
       IN IF r[2] THEN ErrorFetching(s, 3)
          ELSE /\ gauges' = SetGauge(gauges, "power_watts", key, r[1])
               /\ written' = written \cup {<<"power_watts", key>>}
               /\ pc' = [pc EXCEPT ![s] = "fan"]
               /\ UNCHANGED <<up, failAt, idx>>
  /\ UNCHANGED <<mutex, hw, ch, pend, seen, described>>
  /\ UNCHANGED expVars /\ UNCHANGED convVars

QueryFanSpeed(s) ==
  /\ pc[s] = "fan"
  /\ \E ok \in BOOLEAN :
       LET r == GetFanSpeed(ok, CurReading(s).fan)
           key == LabelValues(s)
       IN IF r[2] THEN ErrorFetching(s, 4)
          ELSE /\ gauges' = SetGauge(gauges, "fan_speed", key, r[1])
               /\ written' = written \cup {<<"fan_speed", key>>}
               /\ pc' = [pc EXCEPT ![s] = "memory"]
               /\ UNCHANGED <<up, failAt, idx>>
  /\ UNCHANGED <<mutex, hw, ch, pend, seen, described>>
  /\ UNCHANGED expVars /\ UNCHANGED convVars

\* The memory step with a copy-and-paste slip: Used is written to memory_total and
\* memory_used is never written.
QueryMemoryInfoSlip(s) ==
  /\ pc[s] = "memory"
  /\ \E ok \in BOOLEAN :
       LET r == GetMemoryInfo(ok, CurReading(s).free, CurReading(s).total, CurReading(s).used)
           gpuMem == r[1]
           key == LabelValues(s)
       IN IF r[2] THEN ErrorFetching(s, 5)
          ELSE /\ gauges' = SetGauge(SetGauge(SetGauge(gauges, "memory_free", key, gpuMem.Free),
                                              "memory_total", key, gpuMem.Total),
                                     "memory_total", key, gpuMem.Used)
               /\ written' = written \cup {<<"memory_free", key>>, <<"memory_total", key>>}
               /\ idx' = [idx EXCEPT ![s] = idx[s] + 1]
               /\ pc' = [pc EXCEPT ![s] = IF idx[s] + 1 < Len(devices) THEN "utilization"
                                          ELSE "collect"]
               /\ UNCHANGED <<up, failAt>>
  /\ UNCHANGED <<mutex, hw, ch, pend, seen, described>>
  /\ UNCHANGED expVars /\ UNCHANGED convVars

\* The last query of an iteration; `continue` moves to the next device, and the
\* loop's end returns to Collect.
QueryMemoryInfo(s) ==
  /\ pc[s] = "memory"
  /\ \E ok \in BOOLEAN :
       LET r == GetMemoryInfo(ok, CurReading(s).free, CurReading(s).total, CurReading(s).used)
           gpuMem == r[1]
           key == LabelValues(s)
       IN IF r[2] THEN ErrorFetching(s, 5)
          ELSE /\ gauges' = SetGauge(SetGauge(SetGauge(gauges, "memory_free", key, gpuMem.Free),
                                              "memory_total", key, gpuMem.Total),
                                     "memory_used", key, gpuMem.Used)
               /\ written' = written \cup {<<"memory_free", key>>, <<"memory_total", key>>,
                                           <<"memory_used", key>>}
               /\ idx' = [idx EXCEPT ![s] = idx[s] + 1]
               /\ pc' = [pc EXCEPT ![s] = IF idx[s] + 1 < Len(devices) THEN "utilization"
                                          ELSE "collect"]
               /\ UNCHANGED <<up, failAt>>
  /\ UNCHANGED <<mutex, hw, ch, pend, seen, described>>
  /\ UNCHANGED expVars /\ UNCHANGED convVars

\* ------------------------------------------------------------------ Collect

\* The samples the vectors hold: one item per child. A child is a gauge object of
\* its own, created by WithLabelValues after the Reset that dropped its predecessor,
\* so the item carries the value the child was set to.
Samples(g) ==
  UNION { { [metric |-> name, key |-> k, val |-> g[name].children[k]] :
              k \in DOMAIN g[name].children } : name \in DOMAIN g }

\* Collect unlocking when GetTelemetryFromNVML has returned, before it emits.
CollectVecsUnlocked(s) ==
  /\ pc[s] = "collect"
  /\ mutex' = Unlocked
  /\ ch' = [ch EXCEPT ![s] = ch[s] \o SetToSeq(Samples(gauges))]
  /\ pc' = [pc EXCEPT ![s] = "emitUp"]
  /\ UNCHANGED <<up, gauges, hw, idx, failAt, pend, seen, written, described>>
  /\ UNCHANGED expVars /\ UNCHANGED convVars

\* The second loop of Collect: vec.Collect(ch) for every vector.
CollectVecs(s) ==
  /\ pc[s] = "collect"
  /\ ch' = [ch EXCEPT ![s] = ch[s] \o SetToSeq(Samples(gauges))]
  /\ pc' = [pc EXCEPT ![s] = "emitUp"]
  /\ UNCHANGED <<up, gauges, mutex, hw, idx, failAt, pend, seen, written, described>>
  /\ UNCHANGED expVars /\ UNCHANGED convVars

\* The send of e.up placed on the success path only, not deferred.
EmitUpOnSuccessOnly(s) ==
  /\ pc[s] = "emitUp"
  /\ ch' = [ch EXCEPT ![s] = IF failAt[s] = Nil
                              THEN Append(ch[s], [metric |-> "up", key |-> Nil, val |-> up])
                              ELSE ch[s]]
  /\ pend' = [pend EXCEPT ![s] = IF failAt[s] = Nil THEN <<up>> ELSE Nil]
  /\ pc' = [pc EXCEPT ![s] = "unlock"]
  /\ UNCHANGED <<up, gauges, mutex, hw, idx, failAt, seen, written, described>>
  /\ UNCHANGED expVars /\ UNCHANGED convVars

\* The deferred func() { ch <- e.up }(): the gauge e.up itself is sent; val records
\* the value it holds at that moment.
EmitUp(s) ==
  /\ pc[s] = "emitUp"
  /\ ch' = [ch EXCEPT ![s] = Append(ch[s], [metric |-> "up", key |-> Nil, val |-> up])]
  /\ pend' = [pend EXCEPT ![s] = <<up>>]
  /\ pc' = [pc EXCEPT ![s] = "unlock"]
  /\ UNCHANGED <<up, gauges, mutex, hw, idx, failAt, seen, written, described>>
  /\ UNCHANGED expVars /\ UNCHANGED convVars

\* The deferred e.mutex.Unlock(), run after the deferred send; Collect returns, and
\* the call's channel and locals are followed no further.
Unlock(s) ==
  /\ pc[s] = "unlock"
  /\ mutex' = Unlocked
  /\ pc' = [pc EXCEPT ![s] = "returned"]
  /\ ch' = [ch EXCEPT ![s] = Nil]
  /\ failAt' = [failAt EXCEPT ![s] = Nil]
  /\ idx' = [idx EXCEPT ![s] = 0]
  /\ UNCHANGED <<up, gauges, hw, pend, seen, written, described>>
  /\ UNCHANGED expVars /\ UNCHANGED convVars

\* The registry reads the metrics it received. The children it holds are gauges
\* no later call sets (a later Reset drops them from the vector, and WithLabelValues
\* makes new ones); e.up is the one gauge every call sets, and the registry reads
\* whatever it holds at that moment.
SinkRead(s) ==
  /\ pend[s] # Nil
  /\ seen' = [seen EXCEPT ![s] = <<[sent |-> pend[s][1], read |-> up]>>]
  /\ pend' = [pend EXCEPT ![s] = Nil]
  /\ UNCHANGED <<up, gauges, mutex, hw, pc, idx, failAt, ch, written, described>>
  /\ UNCHANGED expVars /\ UNCHANGED convVars

\* Describe by collecting: only the vectors that hold a sample are described.
DescribeByCollect ==
  /\ Serving
  /\ described' = <<{UpDesc} \cup {gauges[name].desc :
                        name \in {n \in DOMAIN gauges : gauges[n].children # EmptyMap}}>>
  /\ UNCHANGED <<up, gauges, mutex, hw, pc, idx, failAt, ch, pend, seen, written>>
  /\ UNCHANGED expVars /\ UNCHANGED convVars

\* Describe: the up descriptor, then every vector's descriptor; no lock is taken.
Describe ==
  /\ Serving
  /\ described' = <<{UpDesc} \cup {gauges[name].desc : name \in DOMAIN gauges}>>
  /\ UNCHANGED <<up, gauges, mutex, hw, pc, idx, failAt, ch, pend, seen, written>>
  /\ UNCHANGED expVars /\ UNCHANGED convVars

Next ==
  \/ NewExporter
  \/ NewExporterPart000
  \/ Describe
  \/ \E s \in Scrapers :
       \/ Lock(s)
       \/ ResetVecs(s)
       \/ SetUp(s)
       \/ QueryUtilization(s)
       \/ QueryTemperature(s)
       \/ QueryPowerUsage(s)
       \/ QueryFanSpeed(s)
       \/ QueryMemoryInfo(s)
       \/ CollectVecs(s)
       \/ EmitUp(s)
       \/ Unlock(s)
       \/ SinkRead(s)

Spec == Init /\ [][Next]_vars

\* The steps of a Collect that holds the lock.
CollectStep(s) ==
  \/ ResetVecs(s)
  \/ SetUp(s)
  \/ QueryUtilization(s)
  \/ QueryTemperature(s)
  \/ QueryPowerUsage(s)
  \/ QueryFanSpeed(s)
  \/ QueryMemoryInfo(s)
  \/ CollectVecs(s)
  \/ EmitUp(s)
  \/ Unlock(s)

\* Scheduling: a goroutine inside Collect keeps running (every device query returns
\* and the channel takes every send), the registry reads what it was handed, and a
\* caller of Lock gets the mutex once it is released often enough (sync.Mutex hands
\* the lock to a waiter that has waited long).
Fairness ==
  \A s \in Scrapers :
    /\ WF_vars(CollectStep(s))
    /\ WF_vars(SinkRead(s))
    /\ SF_vars(Lock(s))

FairSpec == Init /\ [][Next]_vars /\ Fairness

\* ------------------------------------------------ conversions on their own

CelsiusReadings == 0..MaxCelsius

InitConv ==
  /\ Init!1 /\ Init!2 /\ Init!3 /\ Init!4 /\ Init!5 /\ Init!6 /\ Init!7 /\ Init!8
  /\ Init!9 /\ Init!10 /\ Init!11 /\ Init!12 /\ Init!13 /\ Init!14 /\ Init!15
  /\ Init!16
  /\ convIn \in CelsiusReadings
  /\ convOut = Nil

\* One call of GetTemperature on a device whose sensor reads convIn.
CallGetTemperature ==
  /\ convOut = Nil
  /\ \E ok \in BOOLEAN : convOut' = GetTemperature(ok, convIn)
  /\ UNCHANGED convIn
  /\ UNCHANGED expVars /\ UNCHANGED scrapeVars

NextConv == CallGetTemperature

SpecConv == InitConv /\ [][NextConv]_vars

\* The largest milliwatt reading fed to GetPowerUsage in SpecPower.
MaxMilliwatts == 125500

MilliwattReadings == 0..MaxMilliwatts

InitPower ==
  /\ Init!1 /\ Init!2 /\ Init!3 /\ Init!4 /\ Init!5 /\ Init!6 /\ Init!7 /\ Init!8
  /\ Init!9 /\ Init!10 /\ Init!11 /\ Init!12 /\ Init!13 /\ Init!14 /\ Init!15
  /\ Init!16
  /\ convIn \in MilliwattReadings
  /\ convOut = Nil

\* One call of GetPowerUsage on a device whose sensor reads convIn milliwatts.
CallGetPowerUsage ==
  /\ convOut = Nil
  /\ \E ok \in BOOLEAN : convOut' = GetPowerUsage(ok, convIn)
  /\ UNCHANGED convIn
  /\ UNCHANGED expVars /\ UNCHANGED scrapeVars

NextPower == CallGetPowerUsage

SpecPower == InitPower /\ [][NextPower]_vars

\* ------------------------------------------------------------- properties

\* The metrics written by each query step, in the order of the steps.
StepMetrics ==
  << {"gpu_percent", "memory_percent"},
     {"temperature_celsius", "temperature_fahrenheit"},
     {"power_watts"},
     {"fan_speed"},
     {"memory_free", "memory_total", "memory_used"} >>

NineMetrics == UNION {StepMetrics[j] : j \in 1..5}

\* The metrics of the steps strictly before step st.
MetricsBefore(st) == UNION {StepMetrics[j] : j \in 1..(st - 1)}

DeviceIndexes == 0..(Len(devices) - 1)

\* The label values of enumerated device d.
KeyOf(d) == <<Itoa(d), devices[d + 1].DeviceUUID, devices[d + 1].DeviceName>>

\* How many samples of metric m for device d scraper s's Collect has sent.
Count(s, m, d) ==
  Cardinality({j \in 1..Len(ch[s]) : ch[s][j].metric = m /\ ch[s][j].key = KeyOf(d)})

\* The positions of the up sample in what s's Collect has sent.
UpPositions(s) == {j \in 1..Len(ch[s]) : ch[s][j].metric = "up"}

\* The up values s's Collect has sent, as they were at the send.
EmittedUps(s) == {ch[s][j].val : j \in UpPositions(s)}

\* Collect of s has sent everything and has not yet returned.
Finished(s) == pc[s] = "unlock"

\* s is inside GetTelemetryFromNVML's query sequence.
QueryPcs == {"utilization", "temperature", "power", "fan", "memory"}

\* C1: a Collect whose poll cycle had no failing query has emitted up = 1 and, for
\* every enumerated device, exactly one sample of each of the nine metrics.
C1_SuccessfulCycleComplete ==
  \A s \in Scrapers :
    (Finished(s) /\ failAt[s] = Nil) =>
      /\ EmittedUps(s) = {1}
      /\ \A d \in DeviceIndexes : \A m \in NineMetrics : Count(s, m, d) = 1

C1_Witness ==
  \E s \in Scrapers :
    /\ Finished(s) /\ failAt[s] = Nil /\ Len(devices) >= 2
    /\ \A d \in DeviceIndexes : Count(s, "memory_used", d) = 1

\* C2: a Collect whose cycle failed first on device k at step st has emitted all nine
\* metrics for the devices before k, for device k exactly the metrics of the steps
\* before st, nothing for the devices after k, and up = 0.
C2_AbortedCyclePartial ==
  \A s \in Scrapers :
    (Finished(s) /\ failAt[s] # Nil) =>
      LET k == failAt[s][1]
          st == failAt[s][2]
      IN /\ \A d \in DeviceIndexes : \A m \in NineMetrics :
              Count(s, m, d) = IF d < k \/ (d = k /\ m \in MetricsBefore(st)) THEN 1 ELSE 0
         /\ EmittedUps(s) = {0}

C2_Witness ==
  \E s \in Scrapers :
    /\ Finished(s) /\ failAt[s] # Nil
    /\ failAt[s] = <<0, 3>> /\ Len(devices) >= 2
    /\ Count(s, "temperature_celsius", 0) = 1
    /\ Count(s, "power_watts", 0) = 0
    /\ Count(s, "gpu_percent", 1) = 0

\* C3 (as claimed): what the sink reads for a scrape comes from that scrape's own
\* cycle: the samples are the ones the cycle wrote, and the up value read is the one
\* the cycle left.
C3_SnapshotFromOwnCycle ==
  \A s \in Scrapers :
    /\ Finished(s) =>
         {<<ch[s][j].metric, ch[s][j].key>> : j \in (1..Len(ch[s])) \ UpPositions(s)} = written
    /\ seen[s] # Nil => seen[s][1].read = seen[s][1].sent

\* C4: at most one caller is inside the device-query sequence at any instant.
C4_OneCallerInQueries ==
  Cardinality({s \in Scrapers : pc[s] \in QueryPcs}) <= 1

C4_Witness ==
  \E s \in Scrapers : \E t \in Scrapers \ {s} :
    /\ pc[s] \in QueryPcs
    /\ pc[t] = "returned" /\ seen[t] # Nil

\* C5: when a Collect finishes, no vector holds a label-value tuple that was not
\* written during that Collect's cycle.
C5_NoStaleSamples ==
  \A s \in Scrapers :
    Finished(s) =>
      \A name \in DOMAIN gauges : \A k \in DOMAIN gauges[name].children :
        <<name, k>> \in written

C5_Witness ==
  \E s \in Scrapers : \E t \in Scrapers \ {s} :
    /\ Finished(s) /\ failAt[s] # Nil /\ failAt[s][1] = 0 /\ failAt[s][2] = 2
    /\ Len(devices) >= 2
    /\ seen[t] # Nil /\ seen[t][1].sent = 1

\* C6: a Collect sends the up sample exactly once, as the last thing it sends, on
\* the success path and on the abort path; before that it has sent none.
C6_UpEmittedOnceLast ==
  \A s \in Scrapers :
    /\ Finished(s) => UpPositions(s) = {Len(ch[s])}
    /\ ~Finished(s) => UpPositions(s) = {}

C6_Witness ==
  \E s \in Scrapers :
    Finished(s) /\ failAt[s] # Nil /\ Len(ch[s]) > 2 /\ UpPositions(s) = {Len(ch[s])}

\* The descriptors of the catalog: up and one per catalog metric.
CatalogDescs ==
  {UpDesc} \cup {Desc(name, gaugeMetrics[name].help, gaugeMetrics[name].labels) :
                   name \in DOMAIN gaugeMetrics}

\* C7: every Describe call yields the catalog's descriptor set, whatever Collect
\* calls ran before it or run beside it.
C7_DescribeStable ==
  described # Nil => described[1] = CatalogDescs

C7_Witness ==
  /\ described # Nil
  /\ up = 0
  /\ \E s \in Scrapers : pc[s] = "collect" /\ failAt[s] # Nil
  /\ \E name \in DOMAIN gauges : gauges[name].children = EmptyMap

\* C8 (as claimed): when enumeration fails, NewExporter returns the error and no
\* Exporter object.
C8_NoExporterOnError ==
  retErr => retExp = "nil"

\* C9: the up value a Collect emits is 1 exactly when its own cycle had no failing
\* query, whatever the earlier Collect calls left in the gauge.
C9_UpFromOwnCycle ==
  \A s \in Scrapers :
    Finished(s) => \A j \in UpPositions(s) : (ch[s][j].val = 1) <=> (failAt[s] = Nil)

C9_Witness ==
  \E s \in Scrapers : \E t \in Scrapers \ {s} :
    /\ Finished(s) /\ failAt[s] = Nil /\ EmittedUps(s) = {1}
    /\ seen[t] # Nil /\ seen[t][1].sent = 0

\* C10: for a Celsius reading C the device returned, GetTemperature reports
\* Celsius = C and Fahrenheit = (C*9) div 5 + 32, so 70 gives 158.
C10_TemperatureConversion ==
  (convOut # Nil /\ ~convOut[3]) =>
    /\ convOut[2] = convIn
    /\ convOut[1] = ((convIn * 9) \div 5) + 32
    /\ convIn = 70 => convOut[1] = 158

C10_Witness ==
  convOut # Nil /\ ~convOut[3] /\ convIn = 71 /\ convOut[1] = 159

\* C11: for a milliwatt reading m the device returned, GetPowerUsage reports
\* m div 1000 watts, truncated and never rounded up: 125500 gives 125, 999 gives 0.
C11_PowerConversion ==
  (convOut # Nil /\ ~convOut[2]) =>
    /\ convOut[1] = convIn \div 1000
    /\ convOut[1] * 1000 <= convIn
    /\ convIn = 125500 => convOut[1] = 125
    /\ convIn = 999 => convOut[1] = 0

C11_Witness ==
  convOut # Nil /\ ~convOut[2] /\ convIn = 125500 /\ convOut[1] = 125

\* C12: once a query of a poll cycle has failed, the cycle is at no query any more:
\* neither a remaining query of the failing device nor a query of a later device
\* is issued.
C12_NoQueryAfterFailure ==
  \A s \in Scrapers : failAt[s] # Nil => pc[s] \notin QueryPcs

C12_Witness ==
  \E s \in Scrapers :
    /\ failAt[s] = <<0, 2>> /\ Len(devices) >= 2
    /\ pc[s] = "collect"
    /\ \A name \in {"power_watts", "fan_speed", "memory_free"} : gauges[name].children = EmptyMap

\* The positions of Collect between Lock and the deferred Unlock.
LockedPcs == {"reset", "setUp"} \cup QueryPcs \cup {"collect", "emitUp", "unlock"}

\* C13: a Collect holds the exclusive lock from before its first reset until after
\* its last emission, so no other Collect resets, queries, writes or emits between.
C13_LockSpansCollect ==
  /\ \A s \in Scrapers : pc[s] \in LockedPcs => mutex = s
  /\ Cardinality({s \in Scrapers : pc[s] \in LockedPcs}) <= 1

C13_Witness ==
  \E s \in Scrapers : \E t \in Scrapers \ {s} :
    /\ pc[s] = "unlock" /\ mutex = s /\ UpPositions(s) # {}
    /\ pc[t] = "returned" /\ seen[t] # Nil

\* The value metric name is to carry for a device whose readings are r.
ExpectedValue(name, r) ==
  CASE name = "gpu_percent" -> r.gpu
    [] name = "memory_percent" -> r.memory
    [] name = "temperature_celsius" -> r.celsius
    [] name = "temperature_fahrenheit" -> ((r.celsius * 9) \div 5) + 32
    [] name = "power_watts" -> r.milliwatts \div 1000
    [] name = "fan_speed" -> r.fan
    [] name = "memory_free" -> r.free
    [] name = "memory_total" -> r.total
    [] name = "memory_used" -> r.used

\* C14: every sample a poll cycle has written is stored under the index, UUID and
\* name of an enumerated device and carries that device's reading for the metric
\* (the vectors are looked at once the cycle's resets have run).
C14_SamplesMatchReadings ==
  (\A s \in Scrapers : pc[s] # "reset") =>
    \A name \in DOMAIN gauges : \A k \in DOMAIN gauges[name].children :
      \E d \in DeviceIndexes :
        /\ k = KeyOf(d)
        /\ gauges[name].children[k] = ExpectedValue(name, Reading(hw, d))

C14_Witness ==
  \E s \in Scrapers :
    /\ Finished(s) /\ failAt[s] = Nil /\ Len(devices) >= 2 /\ hw = 1
    /\ gauges["temperature_fahrenheit"].children[KeyOf(1)]
         = ((Reading(1, 1).celsius * 9) \div 5) + 32
    /\ gauges["temperature_celsius"].children[KeyOf(1)] = Reading(1, 1).celsius
    /\ gauges["memory_used"].children[KeyOf(0)] = Reading(1, 0).used

\* The step a scraper at query position p is about to run.
StepOf(p) ==
  CASE p = "utilization" -> 1 [] p = "temperature" -> 2 [] p = "power" -> 3
    [] p = "fan" -> 4 [] p = "memory" -> 5

\* How far the cycle of s has come: <<k, st>>, where every device before k has
\* passed all steps and device k the steps before st.
Progress(s) ==
  IF failAt[s] # Nil THEN failAt[s]
  ELSE IF pc[s] \in QueryPcs THEN <<idx[s], StepOf(pc[s])>>
  ELSE <<Len(devices), 1>>

\* The devices whose step j has succeeded in the cycle of s.
DevicesPast(s, j) ==
  {d \in DeviceIndexes : d < Progress(s)[1] \/ (d = Progress(s)[1] /\ j < Progress(s)[2])}

\* C16: within a poll cycle distinct devices write distinct label-value tuples, also
\* when their UUIDs and names coincide: every vector holds as many tuples as devices
\* have passed its step, so no device's sample was overwritten by another's.
C16_DistinctDevicesDistinctTuples ==
  \A s \in Scrapers :
    pc[s] \in QueryPcs \cup {"collect", "emitUp", "unlock"} =>
      \A j \in 1..5 : \A name \in StepMetrics[j] :
        Cardinality(DOMAIN gauges[name].children) = Cardinality(DevicesPast(s, j))

C16_Witness ==
  \E s \in Scrapers :
    /\ Finished(s) /\ failAt[s] = Nil /\ Len(devices) >= 2
    /\ devices[1].DeviceUUID = devices[2].DeviceUUID
    /\ devices[1].DeviceName = devices[2].DeviceName
    /\ Cardinality(DOMAIN gauges["gpu_percent"].children) = Len(devices)

\* C15: a Collect that has the lock releases it and returns, on the success path
\* and on every abort path, and every scraper of a serving exporter gets through a
\* Collect.
C15_CollectReleasesLock ==
  \A s \in Scrapers :
    /\ (mutex = s) ~> (mutex # s /\ pc[s] = "returned")
    /\ Serving ~> (pc[s] = "returned")

C15_Witness ==
  \E s \in Scrapers : \E t \in Scrapers \ {s} :
    /\ pc[s] = "returned" /\ pend[s] = <<0>>
    /\ mutex = t /\ pc[t] \in QueryPcs

====
